---- MODULE Spec2Model ----
(***************************************************************************)
(* Model of the ranged-mmap range allocators (src/file/allocator.rs,       *)
(* src/file/allocator/sequential.rs, src/file/allocator/concurrent.rs).    *)
(*                                                                         *)
(* u64 values are modelled as naturals in 0..U64Max.  TLC's integers are   *)
(* 32 bits wide, so the machine word is WordBits bits wide instead of 64;  *)
(* every place where the Rust code can leave the u64 range is modelled     *)
(* with the outcome Rust gives it there: `+` panics when the build has     *)
(* overflow checks and wraps modulo 2^w when it has none, fetch_add always *)
(* wraps, saturating_add / saturating_sub clamp.                           *)
(*                                                                         *)
(* The mapped file (src/file/mmap_file_inner.rs) and its safe wrapper      *)
(* (src/file/mmap_file.rs) are modelled byte by byte on a file of FileSize *)
(* bytes.  write_range is two steps, so that two calls can be in progress  *)
(* at once; bytes that two unsynchronised copies touch at the same time    *)
(* end up with either copy's value.                                        *)
(*                                                                         *)
(* The aligned splits of a range (src/file/range.rs) and align_up /        *)
(* align_down on their own are applied to inputs drawn from bounded sets;  *)
(* clones of the raw handle are used one call at a time.                   *)
(***************************************************************************)
EXTENDS Integers, Sequences, FiniteSets, TLC

\* ------------------------------------------------------------------------
\* Bounds of the model
\* ------------------------------------------------------------------------
WordBits == 16
NThreads == 2
MaxCalls == 3
FileSize == 2
MaxFileOps == 2
MaxRawFlushes == 1
MaxSplits == 2
MaxAligns == 2

U64Mod == 2 ^ WordBits
U64Max == U64Mod - 1

\* ------------------------------------------------------------------------
\* allocator.rs
\* ------------------------------------------------------------------------
ALIGNMENT == 4096

\* `value + (ALIGNMENT - remainder)` leaves the u64 range
align_up_overflows(value) ==
    /\ value % ALIGNMENT # 0
    /\ value + (ALIGNMENT - (value % ALIGNMENT)) > U64Max

\* the value is returned as it is
align_up_unrounded(value) == value

\* align_up as the build without overflow checks computes it (wrapping `+`);
\* the build with overflow checks panics where align_up_overflows holds
align_up(value) ==
    IF value % ALIGNMENT = 0
    THEN value
    ELSE (value + (ALIGNMENT - (value % ALIGNMENT))) % U64Mod

\* `value & !(ALIGNMENT - 1)`: the bits below the block size are cleared
align_down(value) == value - (value % ALIGNMENT)

\* u64 primitives used by the allocators
saturating_sub(a, b) == IF a >= b THEN a - b ELSE 0
saturating_add(a, b) == IF a + b > U64Max THEN U64Max ELSE a + b
wrapping_add(a, b) == (a + b) % U64Mod
\* the left operand, whatever the right one is
min_left(a, b) == a

min(a, b) == IF a <= b THEN a ELSE b

\* ------------------------------------------------------------------------
\* Inputs
\* ------------------------------------------------------------------------
\* total_size: NonZeroU64 (a block multiple, and not a block multiple)
TotalSizes == {2 * ALIGNMENT, 10000}
\* size: NonZeroU64: the smallest value, the largest block multiple, the largest value
Requests == {1, U64Mod - ALIGNMENT, U64Max}
\* the sequential allocator is also asked for one block and for one byte more
SeqRequests == Requests \cup {ALIGNMENT, ALIGNMENT + 1}
Threads == 1 .. NThreads

\* Option<AllocatedRange>, or the unwinding of a panic
SomeRange(s, e) == [kind |-> "Some", start |-> s, end |-> e]
NoneRange == [kind |-> "None", start |-> 0, end |-> 0]
Panicked == [kind |-> "Panic", start |-> 0, end |-> 0]

VARIABLES
    overflow_checks,  \* the build panics on arithmetic overflow (debug) or wraps (release)
    total_size,       \* Allocator::total_size, the same for both allocators
    seq_next_pos,     \* sequential::Allocator::next_pos
    seq_calls,        \* the sequential allocate calls so far: request, cursor before/after, result
    next_pos,         \* concurrent::Allocator::next_pos (AtomicU64)
    pc,               \* per thread: position inside concurrent allocate
    requested,        \* per thread: requested_size of the call in progress
    size,             \* per thread: local `size`
    start,            \* per thread: local `start`
    added,            \* per thread: cursor value its fetch_add left behind
    steps,            \* per thread: steps the call in progress has taken
    began,            \* per thread: number of calls that had finished when its call began
    conc_calls,       \* the concurrent allocate calls that have finished, in order of finishing
    mapping,          \* MmapFileInner::mmap: the mapped bytes, shared by every handle
    wr,               \* per thread: the write_range call it is executing
    file_log,         \* the file operations that have finished, in order of finishing
    held,             \* the AllocatedRange values in circulation for splitting
    split_log,        \* the split calls so far: receiver, pos, result
    align_log,        \* the align_up / align_down calls so far: argument, result
    handles           \* per thread: its own clone of the file handle, with its size field

vars == <<overflow_checks, total_size, seq_next_pos, seq_calls, next_pos, pc,
          requested, size, start, added, steps, began, conc_calls,
          mapping, wr, file_log, held, split_log, align_log, handles>>

build_vars == <<overflow_checks, total_size>>
seq_vars == <<seq_next_pos, seq_calls>>
conc_vars == <<next_pos, pc, requested, size, start, added, steps, began, conc_calls>>
file_vars == <<mapping, wr, file_log>>
range_vars == <<held, split_log, align_log>>

\* no handle
NoHandle == [live |-> FALSE, size |-> 0]

\* no write_range call in progress
NoWrite == [active |-> FALSE, range |-> NoneRange, data |-> <<>>, raced |-> {}]

\* RangeAllocator::new for both allocators, for every build and total_size;
\* no file is mapped
Init ==
    /\ overflow_checks \in BOOLEAN
    /\ total_size \in TotalSizes
    /\ seq_next_pos = 0
    /\ seq_calls = <<>>
    /\ next_pos = 0
    /\ pc = [t \in Threads |-> "idle"]
    /\ requested = [t \in Threads |-> 0]
    /\ size = [t \in Threads |-> 0]
    /\ start = [t \in Threads |-> 0]
    /\ added = [t \in Threads |-> 0]
    /\ steps = [t \in Threads |-> 0]
    /\ began = [t \in Threads |-> 0]
    /\ conc_calls = <<>>
    /\ mapping = <<>>
    /\ wr = [t \in Threads |-> NoWrite]
    /\ file_log = <<>>
    /\ held = {}
    /\ split_log = <<>>
    /\ align_log = <<>>
    /\ handles = [t \in Threads |-> NoHandle]

\* ------------------------------------------------------------------------
\* allocator/sequential.rs
\* ------------------------------------------------------------------------
remaining == saturating_sub(total_size, seq_next_pos)

\* the cursor is left where it was
seq_advance_stale(start_, end_) == start_

\* `self.next_pos = end`
seq_advance(start_, end_) == end_

\* the call that finds no space still moves the cursor by the aligned request
seq_allocate_overshooting(req) ==
    IF remaining = 0
    THEN [res |-> NoneRange, next |-> wrapping_add(seq_next_pos, align_up(req))]
    ELSE IF overflow_checks /\ align_up_overflows(req)
    THEN [res |-> Panicked, next |-> seq_next_pos]
    ELSE LET start_ == seq_next_pos
             aligned_size == align_up(req)
             actual_size == min(aligned_size, remaining)
             end_ == start_ + actual_size
         IN  [res |-> SomeRange(start_, end_), next |-> seq_advance(start_, end_)]

\* sequential::Allocator::allocate(size): result and new cursor
seq_allocate(req) ==
    IF remaining = 0
    THEN [res |-> NoneRange, next |-> seq_next_pos]
    ELSE IF overflow_checks /\ align_up_overflows(req)
    THEN [res |-> Panicked, next |-> seq_next_pos]
    ELSE LET start_ == seq_next_pos
             aligned_size == align_up(req)
             actual_size == min(aligned_size, remaining)
             end_ == start_ + actual_size
         IN  [res |-> SomeRange(start_, end_), next |-> seq_advance(start_, end_)]

SeqCall(req, before, out) ==
    [req |-> req, before |-> before, after |-> out.next, res |-> out.res]

\* one whole sequential allocate call
SeqStep(req) ==
    /\ Len(seq_calls) < MaxCalls
    /\ LET out == seq_allocate(req) IN
       /\ seq_next_pos' = out.next
       /\ seq_calls' = Append(seq_calls, SeqCall(req, seq_next_pos, out))

SeqAllocate ==
    /\ \E req \in SeqRequests : SeqStep(req)
    /\ UNCHANGED build_vars
    /\ UNCHANGED range_vars
    /\ UNCHANGED handles
    /\ UNCHANGED conc_vars
    /\ UNCHANGED file_vars

SeqNext == SeqAllocate
SpecSeq == Init /\ [][SeqNext]_vars

\* what an observer returned
Observed(name, value) == [kind |-> name, start |-> value, end |-> value]

\* Allocator::remaining, Allocator::next_pos and Allocator::total_size take
\* &self and return a value
SeqObservers ==
    {Observed("remaining", remaining),
     Observed("next_pos", seq_next_pos),
     Observed("total_size", total_size)}

SeqObserve ==
    /\ Len(seq_calls) < MaxCalls
    /\ \E seen \in SeqObservers :
          seq_calls' = Append(seq_calls,
                [req |-> 0, before |-> seq_next_pos, after |-> seq_next_pos, res |-> seen])
    /\ UNCHANGED <<build_vars, conc_vars, file_vars, range_vars, handles, seq_next_pos>>

\* the sequential allocator with its observers
SeqObsNext == SeqAllocate \/ SeqObserve
SpecSeqObs == Init /\ [][SeqObsNext]_vars

\* ------------------------------------------------------------------------
\* allocator/concurrent.rs
\* ------------------------------------------------------------------------
InProgress(t) == pc[t] \in {"fetch_add", "check"}
Begun == Len(conc_calls) + Cardinality({t \in Threads : InProgress(t)})

\* `self.next_pos.fetch_add(size, Ordering::Relaxed)`: the new cursor value
fetch_add(cur, size_) == wrapping_add(cur, size_)

\* the range ends at the theoretical end, not clamped to total_size
conc_result_unclamped(start_, size_) ==
    IF start_ >= total_size
    THEN NoneRange
    ELSE SomeRange(start_, saturating_add(start_, size_))

\* lines 141-157: the value allocate returns for the locals start and size
conc_result(start_, size_) ==
    IF start_ >= total_size
    THEN NoneRange
    ELSE LET theoretical_end == saturating_add(start_, size_)
             end_ == min(theoretical_end, total_size)
         IN  SomeRange(start_, end_)

ConcCall(t, res) ==
    [req |-> requested[t], before |-> start[t], after |-> added[t],
     began |-> began[t], steps |-> steps[t] + 1, res |-> res]

\* a thread calls allocate(req): `let size = align_up(requested_size.get())`,
\* which unwinds in the build with overflow checks when the sum overflows
ConcBegin(t, req) ==
    /\ pc[t] = "idle"
    /\ Begun < MaxCalls
    /\ IF overflow_checks /\ align_up_overflows(req)
       THEN /\ pc' = [pc EXCEPT ![t] = "panicked"]
            /\ conc_calls' = Append(conc_calls,
                  [req |-> req, before |-> next_pos, after |-> next_pos,
                   began |-> Len(conc_calls), steps |-> 1, res |-> Panicked])
            /\ UNCHANGED <<requested, size, steps, began>>
       ELSE /\ pc' = [pc EXCEPT ![t] = "fetch_add"]
            /\ requested' = [requested EXCEPT ![t] = req]
            /\ size' = [size EXCEPT ![t] = align_up(req)]
            /\ steps' = [steps EXCEPT ![t] = 1]
            /\ began' = [began EXCEPT ![t] = Len(conc_calls)]
            /\ UNCHANGED conc_calls
    /\ UNCHANGED <<next_pos, start, added>>

\* `let start = self.next_pos.fetch_add(size, Ordering::Relaxed)`, one atomic step
ConcFetchAdd(t) ==
    /\ pc[t] = "fetch_add"
    /\ start' = [start EXCEPT ![t] = next_pos]
    /\ next_pos' = fetch_add(next_pos, size[t])
    /\ added' = [added EXCEPT ![t] = fetch_add(next_pos, size[t])]
    /\ steps' = [steps EXCEPT ![t] = steps[t] + 1]
    /\ pc' = [pc EXCEPT ![t] = "check"]
    /\ UNCHANGED <<requested, size, began, conc_calls>>

\* the call goes back to the fetch_add when it finds the space exhausted
ConcReturn_retry(t) ==
    /\ pc[t] = "check"
    /\ IF start[t] >= total_size
       THEN /\ pc' = [pc EXCEPT ![t] = "fetch_add"]
            /\ steps' = [steps EXCEPT ![t] = steps[t] + 1]
            /\ UNCHANGED <<next_pos, requested, size, start, added, began, conc_calls>>
       ELSE /\ conc_calls' = Append(conc_calls, ConcCall(t, conc_result(start[t], size[t])))
            /\ pc' = [pc EXCEPT ![t] = "idle"]
            /\ requested' = [requested EXCEPT ![t] = 0]
            /\ size' = [size EXCEPT ![t] = 0]
            /\ start' = [start EXCEPT ![t] = 0]
            /\ added' = [added EXCEPT ![t] = 0]
            /\ steps' = [steps EXCEPT ![t] = 0]
            /\ began' = [began EXCEPT ![t] = 0]
            /\ UNCHANGED next_pos

\* the exhaustion check and the clamped range, on the thread's locals only
ConcReturn(t) ==
    /\ pc[t] = "check"
    /\ conc_calls' = Append(conc_calls, ConcCall(t, conc_result(start[t], size[t])))
    /\ pc' = [pc EXCEPT ![t] = "idle"]
    /\ requested' = [requested EXCEPT ![t] = 0]
    /\ size' = [size EXCEPT ![t] = 0]
    /\ start' = [start EXCEPT ![t] = 0]
    /\ added' = [added EXCEPT ![t] = 0]
    /\ steps' = [steps EXCEPT ![t] = 0]
    /\ began' = [began EXCEPT ![t] = 0]
    /\ UNCHANGED next_pos

\* idle threads are interchangeable: the first of them makes the next call
Call(t) ==
    /\ \A u \in Threads : u < t => pc[u] # "idle"
    /\ \E req \in Requests : ConcBegin(t, req)
    /\ UNCHANGED build_vars
    /\ UNCHANGED range_vars
    /\ UNCHANGED handles
    /\ UNCHANGED seq_vars
    /\ UNCHANGED file_vars

FetchAdd(t) ==
    /\ ConcFetchAdd(t)
    /\ UNCHANGED build_vars
    /\ UNCHANGED range_vars
    /\ UNCHANGED handles
    /\ UNCHANGED seq_vars
    /\ UNCHANGED file_vars

Return(t) ==
    /\ ConcReturn(t)
    /\ UNCHANGED build_vars
    /\ UNCHANGED range_vars
    /\ UNCHANGED handles
    /\ UNCHANGED seq_vars
    /\ UNCHANGED file_vars

ConcNext == \E t \in Threads : Call(t) \/ FetchAdd(t) \/ Return(t)
SpecConc == Init /\ [][ConcNext]_vars

\* the threads are scheduled fairly: a thread inside allocate keeps running
SpecConcFair ==
    /\ Init
    /\ [][ConcNext]_vars
    /\ \A t \in Threads : WF_vars(FetchAdd(t)) /\ WF_vars(Return(t))

\* ------------------------------------------------------------------------
\* The two allocators side by side: the same total_size, the same requests,
\* one call at a time
\* ------------------------------------------------------------------------
PairCall(t) ==
    /\ \A u \in Threads : ~InProgress(u)
    /\ \E req \in Requests : ConcBegin(t, req) /\ SeqStep(req)
    /\ UNCHANGED build_vars
    /\ UNCHANGED range_vars
    /\ UNCHANGED handles
    /\ UNCHANGED file_vars

PairNext == \E t \in Threads : PairCall(t) \/ FetchAdd(t) \/ Return(t)
SpecPair == Init /\ [][PairNext]_vars

\* ------------------------------------------------------------------------
\* Either allocator on its own: a run works on the sequential allocator or
\* on the concurrent one (the two objects share nothing but total_size)
\* ------------------------------------------------------------------------
SeqUnused == seq_calls = <<>>
ConcUnused == conc_calls = <<>> /\ \A t \in Threads : pc[t] = "idle"

AllocSeq == ConcUnused /\ SeqAllocate
AllocConc == SeqUnused /\ ConcNext
AllocNext == AllocSeq \/ AllocConc
SpecAlloc == Init /\ [][AllocNext]_vars

\* ------------------------------------------------------------------------
\* mmap_file_inner.rs: the raw engine.  A file of FileSize bytes is smaller
\* than one block, so its allocator mints the one truncated range
\* [0, FileSize) (and, where align_up wraps, empty ranges)
\* ------------------------------------------------------------------------
\* `debug_assert!` is compiled in by the profile that also checks overflow
debug_assertions == overflow_checks

\* the file is one byte shorter than the total size of its allocator
file_size_short == total_size - 1

\* MmapFileInner::size: create and open hand the same size to the allocator
file_size == total_size

FileSizes == {FileSize}
Offsets == 0 .. file_size - 1

\* a buffer of n bytes that all hold b
Fill(b, n) == [k \in 1 .. n |-> b]
\* a buffer of n bytes that differ from each other
Ramp(n) == [k \in 1 .. n |-> k]
\* the fill byte of a worker thread
FillByte(t) == 160 + t
\* a read buffer before the read: bytes no write ever supplies
Fresh(n) == Fill(238, n)
ByteValues == {0, 238} \cup {FillByte(t) : t \in Threads} \cup (1 .. FileSize + 2)

Ok(n) == [kind |-> "Ok", n |-> n, err |-> ""]
Err(e) == [kind |-> "Err", n |-> 0, err |-> e]
Unwound == [kind |-> "Panic", n |-> 0, err |-> ""]
Receipt == [kind |-> "Receipt", n |-> 0, err |-> ""]

\* WriteReceipt::new(range)
WriteReceipt(range) == [range |-> range]
NoReceipt == [range |-> NoneRange]

\* a finished file operation: arguments, mapping before and after, results
NoOp ==
    [op |-> "", by |-> 0, offset |-> 0, len |-> 0, range |-> NoneRange, data |-> <<>>, buf |-> <<>>,
     before |-> <<>>, after |-> <<>>, res |-> Ok(0), receipt |-> NoReceipt,
     copied |-> {}, flushed |-> NoneRange, raced |-> FALSE]

\* MmapFile::create: the file is set to `size` zero bytes and mapped, and the
\* allocator of the pair starts at 0 with the same size
InitFile ==
    /\ overflow_checks \in BOOLEAN
    /\ total_size \in FileSizes
    /\ seq_next_pos = 0
    /\ seq_calls = <<>>
    /\ next_pos = 0
    /\ pc = [t \in Threads |-> "idle"]
    /\ requested = [t \in Threads |-> 0]
    /\ size = [t \in Threads |-> 0]
    /\ start = [t \in Threads |-> 0]
    /\ added = [t \in Threads |-> 0]
    /\ steps = [t \in Threads |-> 0]
    /\ began = [t \in Threads |-> 0]
    /\ conc_calls = <<>>
    /\ mapping = [i \in 0 .. total_size - 1 |-> 0]
    /\ wr = [t \in Threads |-> NoWrite]
    /\ file_log = <<>>
    /\ held = {}
    /\ split_log = <<>>
    /\ align_log = <<>>
    /\ handles = [t \in Threads |-> IF t = 1 THEN [live |-> TRUE, size |-> total_size]
                                            ELSE NoHandle]

\* the bounds check of write_at fails from the file's last byte on
exceeds_file_size_strict(offset, len) == saturating_add(offset, len) >= file_size

\* `offset_usize.saturating_add(len) > self.size.get() as usize`
exceeds_file_size(offset, len) == saturating_add(offset, len) > file_size

\* the offsets write_at(offset, data) copies to
copy_region(offset, data) ==
    IF exceeds_file_size(offset, Len(data))
    THEN {}
    ELSE {i \in Offsets : offset <= i /\ i < offset + Len(data)}

\* the copy also puts a zero byte after the target, when there is room
copy_from_slice_terminated(m, offset, data) ==
    [i \in DOMAIN m |->
        IF offset <= i /\ i < offset + Len(data) THEN data[i - offset + 1]
        ELSE IF i = offset + Len(data) THEN 0 ELSE m[i]]

\* every byte of the target holds the first byte of data
copy_from_slice_first(m, offset, data) ==
    [i \in DOMAIN m |->
        IF offset <= i /\ i < offset + Len(data) THEN data[1] ELSE m[i]]

\* `mmap[offset_usize..offset_usize + len].copy_from_slice(data)`
copy_from_slice(m, offset, data) ==
    [i \in DOMAIN m |->
        IF offset <= i /\ i < offset + Len(data) THEN data[i - offset + 1] ELSE m[i]]

\* the bytes around the target are zeroed
write_at_clearing(m, offset, data) ==
    IF exceeds_file_size(offset, Len(data))
    THEN [res |-> Err("WriteExceedsFileSize"), mapping |-> m]
    ELSE [res |-> Ok(Len(data)),
          mapping |-> copy_from_slice([i \in DOMAIN m |-> 0], offset, data)]

\* MmapFileInner::write_at(offset, data) on the mapping m
write_at(m, offset, data) ==
    IF exceeds_file_size(offset, Len(data))
    THEN [res |-> Err("WriteExceedsFileSize"), mapping |-> m]
    ELSE [res |-> Ok(Len(data)), mapping |-> copy_from_slice(m, offset, data)]

\* the bytes are taken from the start of the mapping, whatever the offset
read_at_from_start(m, offset, buf) ==
    IF offset >= file_size
    THEN [res |-> Ok(0), buf |-> buf]
    ELSE LET available == min(saturating_sub(file_size, offset), Len(buf))
         IN  [res |-> Ok(available),
              buf |-> [k \in 1 .. Len(buf) |->
                          IF k <= available THEN m[k - 1] ELSE buf[k]]]

\* MmapFileInner::read_at(offset, buf) on the mapping m
read_at(m, offset, buf) ==
    IF offset >= file_size
    THEN [res |-> Ok(0), buf |-> buf]
    ELSE LET available == min(saturating_sub(file_size, offset), Len(buf))
         IN  [res |-> Ok(available),
              buf |-> [k \in 1 .. Len(buf) |->
                          IF k <= available THEN m[offset + k - 1] ELSE buf[k]]]

\* the flush is requested without looking at the file size
inner_flush_range_unchecked(offset, len) ==
    [res |-> Ok(0), flushed |-> SomeRange(offset, offset + len)]

\* MmapFileInner::flush_range(offset, len): the interval whose flush is requested
inner_flush_range(offset, len) ==
    IF exceeds_file_size(offset, len)
    THEN [res |-> Err("FlushRangeExceedsFileSize"), flushed |-> NoneRange]
    ELSE [res |-> Ok(0), flushed |-> SomeRange(offset, offset + len)]

\* the raw operations, called one at a time
InnerOffsets == Offsets \cup {file_size, file_size + 1, U64Max}
InnerDatas ==
    {Ramp(n) : n \in 0 .. FileSize + 1} \cup {Fill(FillByte(1), n) : n \in 1 .. FileSize}

InnerWriteAt ==
    /\ Len(file_log) < MaxFileOps
    /\ \E offset \in InnerOffsets, data \in InnerDatas :
          LET out == write_at(mapping, offset, data) IN
          /\ mapping' = out.mapping
          /\ file_log' = Append(file_log,
                [NoOp EXCEPT !.op = "write_at", !.offset = offset, !.data = data,
                             !.before = mapping, !.after = out.mapping,
                             !.res = out.res, !.copied = copy_region(offset, data)])
    /\ UNCHANGED <<build_vars, range_vars, handles, seq_vars, conc_vars, wr>>

InnerReadAt ==
    /\ Len(file_log) < MaxFileOps
    /\ \E offset \in InnerOffsets, n \in 0 .. FileSize + 1 :
          LET out == read_at(mapping, offset, Fresh(n)) IN
          /\ file_log' = Append(file_log,
                [NoOp EXCEPT !.op = "read_at", !.offset = offset, !.data = Fresh(n),
                             !.buf = out.buf, !.before = mapping, !.after = mapping,
                             !.res = out.res])
    /\ UNCHANGED <<build_vars, range_vars, handles, seq_vars, conc_vars, mapping, wr>>

InnerNext == InnerWriteAt \/ InnerReadAt
SpecInner == InitFile /\ [][InnerNext]_vars

\* ------------------------------------------------------------------------
\* mmap_file.rs: the safe wrapper.  Every thread can reach the file (MmapFile
\* is Clone, Send and Sync) and can hold a copy of every range and receipt
\* minted so far (AllocatedRange and WriteReceipt are Copy)
\* ------------------------------------------------------------------------
\* concurrent::Allocator::allocate run from start to end with no other call
\* in between
conc_allocate(req) ==
    IF overflow_checks /\ align_up_overflows(req)
    THEN [res |-> Panicked, next |-> next_pos, steps |-> 1]
    ELSE LET size_ == align_up(req)
         IN  [res |-> conc_result(next_pos, size_),
              next |-> fetch_add(next_pos, size_), steps |-> 3]

ConcStep(req) ==
    /\ Begun < MaxCalls
    /\ \A t \in Threads : ~InProgress(t)
    /\ LET out == conc_allocate(req) IN
       /\ next_pos' = out.next
       /\ conc_calls' = Append(conc_calls,
             [req |-> req, before |-> next_pos, after |-> out.next,
              began |-> Len(conc_calls), steps |-> out.steps, res |-> out.res])
    /\ UNCHANGED <<pc, requested, size, start, added, steps, began>>

\* the ranges and the receipts handed out so far
Tokens ==
    {seq_calls[i].res : i \in {j \in 1 .. Len(seq_calls) : seq_calls[j].res.kind = "Some"}}
    \cup {conc_calls[i].res : i \in {j \in 1 .. Len(conc_calls) : conc_calls[j].res.kind = "Some"}}
Receipts ==
    {file_log[i].receipt : i \in {j \in 1 .. Len(file_log) : file_log[j].res.kind = "Receipt"}}

InFlight(t) == wr[t].active
FileBegun == Len(file_log) + Cardinality({t \in Threads : InFlight(t)})

\* the offsets the write_range call w copies to, and the byte it copies to i
Region(w) == copy_region(w.range.start, w.data)
ByteOf(w, i) == w.data[i - w.range.start + 1]

\* the writes in progress on other threads that copy to offset i
Racing(t, i) == {u \in Threads \ {t} : InFlight(u) /\ i \in Region(wr[u])}

\* the data a worker passes for a range: of the range's length, one byte
\* shorter or one byte longer
WriteDatas(t, range) ==
    LET n == range.end - range.start
    IN  {Fill(FillByte(t), n), Ramp(n), Fill(FillByte(t), n + 1)}
        \cup (IF n > 0 THEN {Fill(FillByte(t), n - 1)} ELSE {})
BufLens(range) ==
    LET n == range.end - range.start
    IN  {n, n + 1} \cup (IF n > 0 THEN {n - 1} ELSE {})

\* the allocator of the pair, sequential or concurrent, called by its owner
\* before the workers start
FileAllocSeq ==
    /\ FileBegun = 0
    /\ ConcUnused
    /\ \E req \in Requests : SeqStep(req)
    /\ UNCHANGED <<build_vars, range_vars, handles, conc_vars, file_vars>>

FileAllocConc ==
    /\ FileBegun = 0
    /\ SeqUnused
    /\ \E req \in Requests : ConcStep(req)
    /\ UNCHANGED <<build_vars, range_vars, handles, seq_vars, file_vars>>

\* write_range(range, data) up to the copy: the debug_assert on the length
\* unwinds in the build that has it
WriteRangeBegin(t) ==
    /\ ~InFlight(t)
    /\ FileBegun < MaxFileOps
    /\ \E range \in Tokens : \E data \in WriteDatas(t, range) :
          IF debug_assertions /\ Len(data) # range.end - range.start
          THEN /\ file_log' = Append(file_log,
                     [NoOp EXCEPT !.op = "write_range", !.range = range, !.data = data,
                                  !.before = mapping, !.after = mapping, !.res = Unwound])
               /\ UNCHANGED wr
          ELSE /\ wr' = [wr EXCEPT ![t] =
                     [active |-> TRUE, range |-> range, data |-> data, raced |-> {}]]
               /\ UNCHANGED file_log
    /\ UNCHANGED <<build_vars, range_vars, handles, seq_vars, conc_vars, mapping>>

\* the mappings the copy of thread t can leave: a byte that another write in
\* progress also copies to (a data race) holds either writer's byte
WriteOutcomes(t) ==
    LET w == wr[t]
        out == write_at(mapping, w.range.start, w.data)
    IN  {m \in [Offsets -> ByteValues] :
            \A i \in Offsets :
                \/ m[i] = out.mapping[i]
                \/ i \in Region(w) /\ \E u \in Racing(t, i) : m[i] = ByteOf(wr[u], i)
                \/ i \in Region(w) /\ i \in w.raced /\ m[i] = mapping[i]}

\* write_range from the copy on: `self.inner.write_at(range.start(), data)`,
\* its Result dropped, then `WriteReceipt::new(range)`
WriteRangeEnd(t) ==
    /\ InFlight(t)
    /\ \E m \in WriteOutcomes(t) :
          /\ mapping' = m
          /\ file_log' = Append(file_log,
                [NoOp EXCEPT !.op = "write_range", !.range = wr[t].range,
                             !.data = wr[t].data, !.before = mapping, !.after = m,
                             !.res = Receipt, !.receipt = WriteReceipt(wr[t].range),
                             !.copied = Region(wr[t]),
                             !.raced = (wr[t].raced # {}
                                        \/ \E i \in Region(wr[t]) : Racing(t, i) # {})])
    /\ wr' = [u \in Threads |->
                IF u = t THEN NoWrite
                ELSE IF InFlight(u)
                THEN [wr[u] EXCEPT !.raced = @ \cup (Region(wr[t]) \cap Region(wr[u]))]
                ELSE wr[u]]
    /\ UNCHANGED <<build_vars, range_vars, handles, seq_vars, conc_vars>>

\* the check of read_range fails for a buffer as long as the range, too
buffer_too_small_or_equal(buf_len, len) == buf_len <= len

\* `buf.len() < len`
buffer_too_small(buf_len, len) == buf_len < len

\* MmapFile::read_range(range, buf) on the mapping m
read_range(m, range, buf) ==
    LET len == range.end - range.start
    IN  IF buffer_too_small(Len(buf), len)
        THEN [res |-> Err("BufferTooSmall"), buf |-> buf]
        ELSE LET out == read_at(m, range.start, SubSeq(buf, 1, len))
             IN  [res |-> out.res, buf |-> out.buf \o SubSeq(buf, len + 1, Len(buf))]

\* the bytes a read by thread t can see: a byte that a write in progress
\* copies to (a data race) is the old one or the writer's
Seen(t) ==
    {m \in [Offsets -> ByteValues] :
        \A i \in Offsets :
            m[i] = mapping[i] \/ \E u \in Racing(t, i) : m[i] = ByteOf(wr[u], i)}

ReadRange(t) ==
    /\ ~InFlight(t)
    /\ \A u \in Threads : u < t => InFlight(u)
    /\ FileBegun < MaxFileOps
    /\ \E range \in Tokens : \E n \in BufLens(range) : \E m \in Seen(t) :
          LET out == read_range(m, range, Fresh(n)) IN
          file_log' = Append(file_log,
                [NoOp EXCEPT !.op = "read_range", !.range = range, !.data = Fresh(n),
                             !.buf = out.buf, !.before = mapping, !.after = mapping,
                             !.res = out.res,
                             !.raced = (\E i \in range.start .. range.end - 1 :
                                           Racing(t, i) # {})])
    /\ UNCHANGED <<build_vars, range_vars, handles, seq_vars, conc_vars, mapping, wr>>

\* MmapFile::flush_range(receipt)
FlushRange(t) ==
    /\ ~InFlight(t)
    /\ \A u \in Threads : u < t => InFlight(u)
    /\ FileBegun < MaxFileOps
    /\ \E receipt \in Receipts :
          LET range == receipt.range
              out == inner_flush_range(range.start, range.end - range.start)
          IN  file_log' = Append(file_log,
                [NoOp EXCEPT !.op = "flush_range", !.receipt = receipt,
                             !.before = mapping, !.after = mapping,
                             !.res = out.res, !.flushed = out.flushed])
    /\ UNCHANGED <<build_vars, range_vars, handles, seq_vars, conc_vars, mapping, wr>>

FileNext ==
    \/ FileAllocSeq
    \/ FileAllocConc
    \/ \E t \in Threads : WriteRangeBegin(t) \/ WriteRangeEnd(t) \/ ReadRange(t) \/ FlushRange(t)
SpecFile == InitFile /\ [][FileNext]_vars

\* MmapFileInner::flush_range called directly, next to the safe calls
\* offsets at the start, at the end and at the word maximum; lengths of
\* nothing, of the whole file and of one byte more
FlushOffsets == {0, file_size, U64Max}
FlushLens == {0, FileSize, FileSize + 1}
RawFlushes == {k \in 1 .. Len(file_log) : file_log[k].op = "inner_flush_range"}

InnerFlushRange ==
    /\ Cardinality(RawFlushes) < MaxRawFlushes
    /\ \E offset \in FlushOffsets, len \in FlushLens :
          LET out == inner_flush_range(offset, len) IN
          file_log' = Append(file_log,
                [NoOp EXCEPT !.op = "inner_flush_range", !.offset = offset, !.len = len,
                             !.before = mapping, !.after = mapping,
                             !.res = out.res, !.flushed = out.flushed])
    /\ UNCHANGED <<build_vars, range_vars, handles, seq_vars, conc_vars, mapping, wr>>

\* the file with its writes and both ways of flushing
FlushNext ==
    \/ FileAllocSeq
    \/ FileAllocConc
    \/ \E t \in Threads : WriteRangeBegin(t) \/ WriteRangeEnd(t) \/ FlushRange(t)
    \/ InnerFlushRange
SpecFlush == InitFile /\ [][FlushNext]_vars

\* ------------------------------------------------------------------------
\* range.rs: AllocatedRange and its aligned splits
\* ------------------------------------------------------------------------
\* `-` and `+` on u64: the value the build without overflow checks computes
wrapping_sub(a, b) == (a - b + U64Mod) % U64Mod

\* AllocatedRange::len: `self.end - self.start`
range_len(r) == wrapping_sub(r.end, r.start)
\* AllocatedRange::is_empty: `self.start == self.end`
is_empty(r) == r.start = r.end

\* SplitUpResult / SplitDownResult, or the unwinding of a panic
SplitOf(low, high) == [kind |-> "Split", low |-> low, high |-> high, range |-> NoneRange]
LowOf(r) == [kind |-> "Low", low |-> NoneRange, high |-> NoneRange, range |-> r]
HighOf(r) == [kind |-> "High", low |-> NoneRange, high |-> NoneRange, range |-> r]
OutOfBounds(r) == [kind |-> "OutOfBounds", low |-> NoneRange, high |-> NoneRange, range |-> r]
SplitPanicked == [kind |-> "Panic", low |-> NoneRange, high |-> NoneRange, range |-> NoneRange]

\* an arithmetic step of split_at_align_up leaves the u64 range: `end - start`
\* of len(), `start + pos`, or the `+` inside align_up
split_up_overflows(r, pos) ==
    \/ r.start > r.end
    \/ pos <= range_len(r) /\ r.start + pos > U64Max
    \/ pos <= range_len(r) /\ align_up_overflows(wrapping_add(r.start, pos))

\* AllocatedRange::split_at_align_up(pos)
split_at_align_up(r, pos) ==
    IF overflow_checks /\ split_up_overflows(r, pos)
    THEN SplitPanicked
    ELSE IF pos > range_len(r)
    THEN OutOfBounds(r)
    ELSE LET split_point == align_up(wrapping_add(r.start, pos)) IN
         IF split_point >= r.end
         THEN LowOf(r)
         ELSE SplitOf(SomeRange(r.start, split_point), SomeRange(split_point, r.end))

\* an arithmetic step of split_at_align_down leaves the u64 range
split_down_overflows(r, pos) ==
    \/ r.start > r.end
    \/ pos <= range_len(r) /\ r.start + pos > U64Max

\* the split point is compared with the end and not with the start
split_at_align_down_end(r, pos) ==
    IF overflow_checks /\ split_down_overflows(r, pos)
    THEN SplitPanicked
    ELSE IF pos > range_len(r)
    THEN OutOfBounds(r)
    ELSE LET split_point == align_down(wrapping_add(r.start, pos)) IN
         IF split_point <= r.end
         THEN HighOf(r)
         ELSE SplitOf(SomeRange(r.start, split_point), SomeRange(split_point, r.end))

\* AllocatedRange::split_at_align_down(pos)
split_at_align_down(r, pos) ==
    IF overflow_checks /\ split_down_overflows(r, pos)
    THEN SplitPanicked
    ELSE IF pos > range_len(r)
    THEN OutOfBounds(r)
    ELSE LET split_point == align_down(wrapping_add(r.start, pos)) IN
         IF split_point <= r.start
         THEN HighOf(r)
         ELSE SplitOf(SomeRange(r.start, split_point), SomeRange(split_point, r.end))

\* total_size of the allocator the ranges come from: two blocks, not a block
\* multiple, the largest value
SplitTotals == {2 * ALIGNMENT, 10000, U64Max}
\* the cursor of an allocator is a block multiple below total_size
BlockStarts == {s \in {0, ALIGNMENT, 2 * ALIGNMENT, U64Mod - ALIGNMENT} : s < total_size}
\* blocks a call hands out; none only where align_up wrapped to 0
MintBlocks == IF overflow_checks THEN 1 .. 2 ELSE 0 .. 2
\* the ranges allocate can return: [cursor, cursor + min(aligned size, remaining))
Minted ==
    {SomeRange(s, s + min(n * ALIGNMENT, total_size - s)) : s \in BlockStarts, n \in MintBlocks}

\* pos: u64, around 0, around one block, around the length, the largest value
SplitPositions(r) ==
    {p \in {0, 1, ALIGNMENT, ALIGNMENT + 1, range_len(r) - 1, range_len(r),
            range_len(r) + 1, U64Max} : p >= 0 /\ p <= U64Max}

\* one range has been allocated; nothing else has happened
InitSplit ==
    /\ overflow_checks \in BOOLEAN
    /\ total_size \in SplitTotals
    /\ seq_next_pos = 0
    /\ seq_calls = <<>>
    /\ next_pos = 0
    /\ pc = [t \in Threads |-> "idle"]
    /\ requested = [t \in Threads |-> 0]
    /\ size = [t \in Threads |-> 0]
    /\ start = [t \in Threads |-> 0]
    /\ added = [t \in Threads |-> 0]
    /\ steps = [t \in Threads |-> 0]
    /\ began = [t \in Threads |-> 0]
    /\ conc_calls = <<>>
    /\ mapping = <<>>
    /\ wr = [t \in Threads |-> NoWrite]
    /\ file_log = <<>>
    /\ held \in {{r} : r \in Minted}
    /\ split_log = <<>>
    /\ align_log = <<>>
    /\ handles = [t \in Threads |-> NoHandle]

\* the halves of a split join the ranges in circulation; the receiver is
\* `&self` and Copy, so it stays
Halves(out) == IF out.kind = "Split" THEN {out.low, out.high} ELSE {}

SplitCall(op, r, pos, out) ==
    [op |-> op, self |-> r, pos |-> pos, res |-> out, after |-> r]

SplitAtAlignUp ==
    /\ Len(split_log) < MaxSplits
    /\ \E r \in held : \E pos \in SplitPositions(r) :
          LET out == split_at_align_up(r, pos) IN
          /\ split_log' = Append(split_log, SplitCall("split_at_align_up", r, pos, out))
          /\ held' = held \cup Halves(out)
    /\ UNCHANGED <<build_vars, seq_vars, conc_vars, file_vars, handles, align_log>>

SplitAtAlignDown ==
    /\ Len(split_log) < MaxSplits
    /\ \E r \in held : \E pos \in SplitPositions(r) :
          LET out == split_at_align_down(r, pos) IN
          /\ split_log' = Append(split_log, SplitCall("split_at_align_down", r, pos, out))
          /\ held' = held \cup Halves(out)
    /\ UNCHANGED <<build_vars, seq_vars, conc_vars, file_vars, handles, align_log>>

SplitNext == SplitAtAlignUp \/ SplitAtAlignDown
SpecSplit == InitSplit /\ [][SplitNext]_vars

\* a caller that keeps every range one sequential allocator hands out and
\* then replaces ranges by the halves of their splits
ClosureRequests == {ALIGNMENT, U64Mod - ALIGNMENT}
ClosurePositions(r) == {p \in {0, 1, range_len(r)} : p <= U64Max}

\* RangeAllocator::new for a total_size up to the largest value
InitClosure ==
    /\ overflow_checks \in BOOLEAN
    /\ total_size \in SplitTotals
    /\ seq_next_pos = 0
    /\ seq_calls = <<>>
    /\ next_pos = 0
    /\ pc = [t \in Threads |-> "idle"]
    /\ requested = [t \in Threads |-> 0]
    /\ size = [t \in Threads |-> 0]
    /\ start = [t \in Threads |-> 0]
    /\ added = [t \in Threads |-> 0]
    /\ steps = [t \in Threads |-> 0]
    /\ began = [t \in Threads |-> 0]
    /\ conc_calls = <<>>
    /\ mapping = <<>>
    /\ wr = [t \in Threads |-> NoWrite]
    /\ file_log = <<>>
    /\ held = {}
    /\ split_log = <<>>
    /\ align_log = <<>>
    /\ handles = [t \in Threads |-> NoHandle]

\* allocate, and the caller keeps the range
KeepAllocated ==
    /\ split_log = <<>>
    /\ \E req \in ClosureRequests :
          /\ SeqStep(req)
          /\ held' = held \cup (IF seq_allocate(req).res.kind = "Some"
                                THEN {seq_allocate(req).res} ELSE {})
    /\ UNCHANGED <<build_vars, conc_vars, file_vars, handles, split_log, align_log>>

\* the halves of a Split take the place of the range that was split
Replaced(r, out) == IF out.kind = "Split" THEN (held \ {r}) \cup Halves(out) ELSE held

ReplaceBySplitUp ==
    /\ Len(split_log) < MaxSplits
    /\ \E r \in held : \E pos \in ClosurePositions(r) :
          LET out == split_at_align_up(r, pos) IN
          /\ split_log' = Append(split_log, SplitCall("split_at_align_up", r, pos, out))
          /\ held' = Replaced(r, out)
    /\ UNCHANGED <<build_vars, seq_vars, conc_vars, file_vars, handles, align_log>>

ReplaceBySplitDown ==
    /\ Len(split_log) < MaxSplits
    /\ \E r \in held : \E pos \in ClosurePositions(r) :
          LET out == split_at_align_down(r, pos) IN
          /\ split_log' = Append(split_log, SplitCall("split_at_align_down", r, pos, out))
          /\ held' = Replaced(r, out)
    /\ UNCHANGED <<build_vars, seq_vars, conc_vars, file_vars, handles, align_log>>

ClosureNext == KeepAllocated \/ ReplaceBySplitUp \/ ReplaceBySplitDown
SpecClosure == InitClosure /\ [][ClosureNext]_vars

\* ------------------------------------------------------------------------
\* allocator.rs: align_up and align_down called on their own
\* ------------------------------------------------------------------------
\* the u64 a call returned, or the unwinding of a panic
Returned(v) == [kind |-> "Ok", value |-> v]
AlignPanicked == [kind |-> "Panic", value |-> 0]

\* a call of align_up in the build at hand
align_up_call(v) ==
    IF overflow_checks /\ align_up_overflows(v) THEN AlignPanicked ELSE Returned(align_up(v))
\* a call of align_down: a bit mask, the same in every build
align_down_call(v) == Returned(align_down(v))

\* value: u64, around 0, around one block, around the last block
AlignInputs ==
    {0, 1, ALIGNMENT - 1, ALIGNMENT, ALIGNMENT + 1,
     U64Mod - ALIGNMENT - 1, U64Mod - ALIGNMENT, U64Mod - ALIGNMENT + 1, U64Max}
\* a call is made on an input or on what an earlier call returned
AlignArgs ==
    AlignInputs \cup {align_log[k].res.value :
                        k \in {j \in 1 .. Len(align_log) : align_log[j].res.kind = "Ok"}}

AlignUp ==
    /\ Len(align_log) < MaxAligns
    /\ \E v \in AlignArgs :
          align_log' = Append(align_log, [fn |-> "align_up", v |-> v, res |-> align_up_call(v)])
    /\ UNCHANGED <<build_vars, seq_vars, conc_vars, file_vars, handles, held, split_log>>

AlignDown ==
    /\ Len(align_log) < MaxAligns
    /\ \E v \in AlignArgs :
          align_log' = Append(align_log, [fn |-> "align_down", v |-> v, res |-> align_down_call(v)])
    /\ UNCHANGED <<build_vars, seq_vars, conc_vars, file_vars, handles, held, split_log>>

AlignNext == AlignUp \/ AlignDown
SpecAlign == Init /\ [][AlignNext]_vars

\* ------------------------------------------------------------------------
\* mmap_file_inner.rs: clones of the handle, each used by its own thread,
\* one call at a time
\* ------------------------------------------------------------------------
\* the clone takes the last offset of the file for its size
clone_last_offset(g) == [live |-> TRUE, size |-> g.size - 1]

\* #[derive(Clone)]: the Arc is cloned, so the new handle points at the same
\* mapping, and the size field is copied
clone(g) == [live |-> TRUE, size |-> g.size]

Live == {h \in Threads : handles[h].live}
\* MmapFileInner::size
size_of(h) == handles[h].size

\* arguments of the calls made through clones
CloneOffsets == {0, file_size - 1}
CloneDatas(h) == {Fill(FillByte(h), n) : n \in {1, FileSize}}

CloneHandle ==
    /\ \E g \in Live : \E h \in Threads \ Live :
          /\ \A u \in Threads \ Live : h <= u
          /\ handles' = [handles EXCEPT ![h] = clone(handles[g])]
    /\ UNCHANGED <<build_vars, seq_vars, conc_vars, file_vars, range_vars>>

HandleWriteAt ==
    /\ Len(file_log) < MaxFileOps
    /\ \E h \in Live : \E offset \in CloneOffsets, data \in CloneDatas(h) :
          LET out == write_at(mapping, offset, data) IN
          /\ mapping' = out.mapping
          /\ file_log' = Append(file_log,
                [NoOp EXCEPT !.op = "write_at", !.by = h, !.offset = offset, !.data = data,
                             !.before = mapping, !.after = out.mapping, !.res = out.res])
    /\ UNCHANGED <<build_vars, seq_vars, conc_vars, range_vars, handles, wr>>

HandleReadAt ==
    /\ Len(file_log) < MaxFileOps
    /\ \E h \in Live : \E offset \in CloneOffsets :
          LET out == read_at(mapping, offset, Fresh(FileSize)) IN
          file_log' = Append(file_log,
                [NoOp EXCEPT !.op = "read_at", !.by = h, !.offset = offset,
                             !.data = Fresh(FileSize), !.buf = out.buf,
                             !.before = mapping, !.after = mapping, !.res = out.res])
    /\ UNCHANGED <<build_vars, seq_vars, conc_vars, range_vars, handles, mapping, wr>>

HandleFlushRange ==
    /\ Len(file_log) < MaxFileOps
    /\ \E h \in Live :
          LET out == inner_flush_range(0, FileSize) IN
          file_log' = Append(file_log,
                [NoOp EXCEPT !.op = "inner_flush_range", !.by = h, !.len = FileSize,
                             !.before = mapping, !.after = mapping,
                             !.res = out.res, !.flushed = out.flushed])
    /\ UNCHANGED <<build_vars, seq_vars, conc_vars, range_vars, handles, mapping, wr>>

\* MmapFileInner::fill(byte): `mmap.fill(byte)`
fill(m, byte) == [i \in DOMAIN m |-> byte]

HandleFill ==
    /\ Len(file_log) < MaxFileOps
    /\ \E h \in Live :
          /\ mapping' = fill(mapping, FillByte(h))
          /\ file_log' = Append(file_log,
                [NoOp EXCEPT !.op = "fill", !.by = h,
                             !.before = mapping, !.after = fill(mapping, FillByte(h))])
    /\ UNCHANGED <<build_vars, seq_vars, conc_vars, range_vars, handles, wr>>

\* MmapFileInner::flush: `mmap.flush_async()`, the mapping is only read
HandleFlush ==
    /\ Len(file_log) < MaxFileOps
    /\ \E h \in Live :
          file_log' = Append(file_log,
                [NoOp EXCEPT !.op = "flush", !.by = h,
                             !.before = mapping, !.after = mapping,
                             !.flushed = SomeRange(0, file_size)])
    /\ UNCHANGED <<build_vars, seq_vars, conc_vars, range_vars, handles, mapping, wr>>

\* MmapFileInner::sync_all: `mmap.flush()`, the mapping is only read
HandleSyncAll ==
    /\ Len(file_log) < MaxFileOps
    /\ \E h \in Live :
          file_log' = Append(file_log,
                [NoOp EXCEPT !.op = "sync_all", !.by = h,
                             !.before = mapping, !.after = mapping,
                             !.flushed = SomeRange(0, file_size)])
    /\ UNCHANGED <<build_vars, seq_vars, conc_vars, range_vars, handles, mapping, wr>>

CloneNext ==
    \/ CloneHandle
    \/ HandleWriteAt
    \/ HandleReadAt
    \/ HandleFlushRange
    \/ HandleFill
    \/ HandleFlush
    \/ HandleSyncAll
SpecClone == InitFile /\ [][CloneNext]_vars

\* ------------------------------------------------------------------------
\* allocator/concurrent.rs, tests: worker threads that drain one allocator,
\* `while let Some(range) = alloc.allocate(..) { .. }`
\* ------------------------------------------------------------------------
MaxDrainCalls == 4

\* what the worker does with the value allocate returned: it loops on a
\* range, leaves the loop on None, and is gone when the call unwound
drain_pc(res) ==
    IF res.kind = "None" THEN "exhausted"
    ELSE IF res.kind = "Some" THEN "idle" ELSE "panicked"

\* one pass of the worker loop of thread t; the call touches the shared
\* cursor in its single fetch_add, so it takes effect at that point
DrainAllocate(t) ==
    /\ pc[t] = "idle"
    /\ Len(conc_calls) < MaxDrainCalls
    /\ \E req \in Requests :
          LET out == conc_allocate(req) IN
          /\ next_pos' = out.next
          /\ conc_calls' = Append(conc_calls,
                [req |-> req, before |-> next_pos, after |-> out.next,
                 began |-> Len(conc_calls), steps |-> out.steps, res |-> out.res])
          /\ pc' = [pc EXCEPT ![t] = drain_pc(out.res)]
    /\ UNCHANGED <<build_vars, seq_vars, file_vars, range_vars, handles,
                   requested, size, start, added, steps, began>>

DrainNext == \E t \in Threads : DrainAllocate(t)
SpecDrain == Init /\ [][DrainNext]_vars

\* ------------------------------------------------------------------------
\* Properties
\* ------------------------------------------------------------------------
\* the smallest multiple of ALIGNMENT that is >= v, as a natural number
AlignUpExact(v) == ((v + ALIGNMENT - 1) \div ALIGNMENT) * ALIGNMENT

IsSome(c) == c.res.kind = "Some"
IsNone(c) == c.res.kind = "None"
RangeLen(r) == r.end - r.start
\* some byte offset belongs to both half-open ranges
Overlap(a, b) ==
    (IF a.start >= b.start THEN a.start ELSE b.start) < (IF a.end <= b.end THEN a.end ELSE b.end)
PairwiseDisjoint(calls) ==
    \A i, j \in 1 .. Len(calls) :
        (i # j /\ IsSome(calls[i]) /\ IsSome(calls[j])) => ~Overlap(calls[i].res, calls[j].res)

\* C1: any two ranges returned by different successful allocate calls on one
\* sequential allocator are disjoint half-open intervals, whatever the
\* requested sizes (up to the largest word value).
C1_SeqDisjoint == PairwiseDisjoint(seq_calls)

\* two successful calls returned non-empty ranges, one of them for a request
\* of the largest block multiple
C1_Witness ==
    \E i, j \in 1 .. Len(seq_calls) :
        /\ i < j
        /\ IsSome(seq_calls[i]) /\ RangeLen(seq_calls[i].res) > 0
        /\ IsSome(seq_calls[j]) /\ RangeLen(seq_calls[j].res) > 0
        /\ seq_calls[j].req = U64Mod - ALIGNMENT

\* C5: every successful allocate call, on either allocator and for every
\* non-zero requested size, returns a non-empty range (start < end).
C5_NonEmpty ==
    /\ \A i \in 1 .. Len(seq_calls) :
          IsSome(seq_calls[i]) => seq_calls[i].res.start < seq_calls[i].res.end
    /\ \A i \in 1 .. Len(conc_calls) :
          IsSome(conc_calls[i]) => conc_calls[i].res.start < conc_calls[i].res.end

\* C9: sequential allocate(requested) with cursor c and r = total_size - c
\* fails iff r = 0 (cursor unchanged) and otherwise returns exactly
\* [c, c + min(align_up(requested), r)) and leaves the cursor at that end.
C9_SeqAllocateExact ==
    \A i \in 1 .. Len(seq_calls) :
        LET c == seq_calls[i]
            r == total_size - c.before
            e == c.before + min(AlignUpExact(c.req), r)
        IN  IF r = 0
            THEN IsNone(c) /\ c.after = c.before
            ELSE c.res = SomeRange(c.before, e) /\ c.after = e

\* C2: no two successful allocate calls on one shared concurrent allocator,
\* from any threads in any interleaving and for any non-zero requested
\* sizes, return overlapping half-open ranges.
C2_ConcDisjoint == PairwiseDisjoint(conc_calls)

\* the indices of the successful calls of a history
SomeCalls(calls) == {i \in 1 .. Len(calls) : IsSome(calls[i])}

\* the returned ranges, taken in some order of ascending start, begin at 0
\* and each begins where the one before it ends
GapFreeChain(calls) ==
    LET S == SomeCalls(calls)
        n == Cardinality(S)
    IN  \E ord \in [1 .. n -> S] :
            /\ \A k, l \in 1 .. n : k # l => ord[k] # ord[l]
            /\ n > 0 => calls[ord[1]].res.start = 0
            /\ \A k \in 1 .. n - 1 :
                  /\ calls[ord[k]].res.start <= calls[ord[k + 1]].res.start
                  /\ calls[ord[k + 1]].res.start = calls[ord[k]].res.end

\* only a range that ends at total_size is shorter than its aligned request
OnlyTailTruncated(calls) ==
    \A i \in SomeCalls(calls) :
        \/ RangeLen(calls[i].res) = AlignUpExact(calls[i].req)
        \/ calls[i].res.end = total_size

\* C3: whenever no allocate call is in progress, the ranges returned so far
\* by one allocator (sequential or concurrent), sorted by start, form a
\* gap-free chain from 0, and only the range ending at total_size may be
\* shorter than its aligned request.
C3_GapFreeChain ==
    /\ GapFreeChain(seq_calls) /\ OnlyTailTruncated(seq_calls)
    /\ (\A t \in Threads : ~InProgress(t)) =>
          (GapFreeChain(conc_calls) /\ OnlyTailTruncated(conc_calls))

RECURSIVE SumLens(_, _)
\* the sum of the lengths of the ranges returned by the first n calls
SumLens(calls, n) ==
    IF n = 0 THEN 0
    ELSE SumLens(calls, n - 1) + (IF IsSome(calls[n]) THEN RangeLen(calls[n].res) ELSE 0)

\* C4: once the lengths of the ranges an allocator has returned sum to
\* total_size, no allocate call that begins afterwards on that allocator
\* (sequential or concurrent) returns a range: it fails with exhaustion.
C4_ExhaustedAfterFull ==
    /\ \A i \in 1 .. Len(seq_calls) :
          SumLens(seq_calls, i - 1) = total_size => ~IsSome(seq_calls[i])
    /\ \A i \in 1 .. Len(conc_calls) :
          SumLens(conc_calls, conc_calls[i].began) = total_size => ~IsSome(conc_calls[i])

\* C6: in the concurrent allocator, once an allocate call has returned None,
\* no allocate call that begins afterwards succeeds: none returns a range.
C6_NoneIsFinal ==
    \A i \in 1 .. Len(conc_calls) :
        (\E j \in 1 .. conc_calls[i].began : IsNone(conc_calls[j])) => ~IsSome(conc_calls[i])

\* C10: concurrent allocate(requested) adds align_up(requested) to the cursor
\* in one atomic step and, with s the cursor value before the addition,
\* returns None exactly when s >= total_size and otherwise returns exactly
\* [s, min(s + align_up(requested), total_size)).
C10_ConcAllocateExact ==
    \A i \in 1 .. Len(conc_calls) :
        LET c == conc_calls[i]
            a == AlignUpExact(c.req)
        IN  /\ c.after = (c.before + a) % U64Mod
            /\ IF c.before >= total_size
               THEN IsNone(c)
               ELSE c.res = SomeRange(c.before, min(c.before + a, total_size))

\* C7: the concurrent allocator is wait-free: a call takes at most three of
\* its own steps (align, one fetch_add, check and return), with no retry and
\* no lock, so under fair scheduling every call in progress returns,
\* whatever the other threads do.
C7_WaitFree ==
    /\ [](\A t \in Threads : steps[t] < 3)
    /\ [](\A i \in 1 .. Len(conc_calls) : conc_calls[i].steps <= 3)
    /\ \A t \in Threads : InProgress(t) ~> (pc[t] = "idle")

\* two calls are in progress at once, one before and one after its fetch_add,
\* on an allocator whose cursor has already passed total_size
C7_Witness ==
    \E t, u \in Threads :
        /\ pc[t] = "fetch_add"
        /\ pc[u] = "check"
        /\ start[u] >= total_size

\* C8: a concurrent and a sequential allocator with the same total_size, fed
\* the same requested sizes one call at a time, return the same result in
\* every call that returns from both (the same range, or exhaustion from
\* both).
C8_SameResults ==
    (\A t \in Threads : ~InProgress(t)) =>
        /\ Len(conc_calls) = Len(seq_calls)
        /\ \A i \in 1 .. Len(seq_calls) :
              (conc_calls[i].res # Panicked /\ seq_calls[i].res # Panicked) =>
                  conc_calls[i].res = seq_calls[i].res

\* C11: every range returned by allocate, by either allocator, in any
\* interleaving and for any non-zero requested size, has
\* start <= end <= total_size, also when the concurrent cursor has gone
\* beyond total_size.
C11_RangeWithinTotal ==
    /\ \A i \in 1 .. Len(seq_calls) :
          IsSome(seq_calls[i]) =>
              /\ seq_calls[i].res.start <= seq_calls[i].res.end
              /\ seq_calls[i].res.end <= total_size
    /\ \A i \in 1 .. Len(conc_calls) :
          IsSome(conc_calls[i]) =>
              /\ conc_calls[i].res.start <= conc_calls[i].res.end
              /\ conc_calls[i].res.end <= total_size

\* a concurrent call returned a range although the cursor was already beyond
\* total_size when it returned, and its own fetch_add had overshot as well
C11_Witness ==
    \E t \in Threads :
        /\ pc[t] = "idle"
        /\ next_pos > total_size
        /\ \E i \in 1 .. Len(conc_calls) :
              /\ IsSome(conc_calls[i])
              /\ conc_calls[i].after > total_size
              /\ conc_calls[i].res.end = total_size
              /\ conc_calls[i].res.start < conc_calls[i].res.end

\* C12: in every reachable state of the sequential allocator
\* 0 <= next_pos <= total_size, remaining() = total_size - next_pos, and
\* next_pos is the sum of the lengths of all ranges returned so far.
C12_SeqCursor ==
    /\ 0 <= seq_next_pos
    /\ seq_next_pos <= total_size
    /\ remaining = total_size - seq_next_pos
    /\ seq_next_pos = SumLens(seq_calls, Len(seq_calls))

\* the allocator is full after a truncated last range and has since refused
\* a call
C12_Witness ==
    /\ seq_next_pos = total_size
    /\ remaining = 0
    /\ \E i, j \in 1 .. Len(seq_calls) :
          /\ i < j
          /\ IsSome(seq_calls[i])
          /\ RangeLen(seq_calls[i].res) < AlignUpExact(seq_calls[i].req)
          /\ IsNone(seq_calls[j])

\* C13: with the safe API only (create, allocate, clone, write_range), two
\* threads are never executing write_range at the same time on overlapping
\* byte regions of the same mapping.
C13_NoOverlappingWrites ==
    \A t, u \in Threads :
        (t # u /\ InFlight(t) /\ InFlight(u)) => Region(wr[t]) \cap Region(wr[u]) = {}

\* the allocate calls of the pair's allocator
FileCalls == IF conc_calls = <<>> THEN seq_calls ELSE conc_calls

\* every range the allocator returned was written once, range i by worker
\* who[i] with its own fill byte, as log entry at[i], and no write is running
WorkersDone(who, at) ==
    /\ \A t \in Threads : ~InFlight(t)
    /\ Len(file_log) = Cardinality(SomeCalls(FileCalls))
    /\ \A i, j \in SomeCalls(FileCalls) : i # j => (who[i] # who[j] /\ at[i] # at[j])
    /\ \A i \in SomeCalls(FileCalls) :
          /\ file_log[at[i]].op = "write_range"
          /\ file_log[at[i]].res = Receipt
          /\ file_log[at[i]].range = FileCalls[i].res
          /\ file_log[at[i]].data = Fill(FillByte(who[i]), RangeLen(FileCalls[i].res))

\* C14: when K ranges are allocated from one allocator and K workers each
\* write their own distinct fill byte into their own range through cloned
\* handles, in any interleaving of the writes, then after all workers have
\* finished every byte of range i equals worker i's fill byte.
C14_WorkersKeepTheirBytes ==
    \A who \in [SomeCalls(FileCalls) -> Threads] :
        \A at \in [SomeCalls(FileCalls) -> 1 .. Len(file_log)] :
            WorkersDone(who, at) =>
                \A i \in SomeCalls(FileCalls) :
                    \A o \in FileCalls[i].res.start .. FileCalls[i].res.end - 1 :
                        mapping[o] = FillByte(who[i])

\* the indices of the finished calls of an operation
OpsOf(op) == {k \in 1 .. Len(file_log) : file_log[k].op = op}
RangeOffsets(r) == {o \in Offsets : r.start <= o /\ o < r.end}

\* C15: write_range(range, data) with data.len() != range.len(), shorter or
\* longer, fails: it returns no receipt and leaves the mapping unchanged.
C15_MismatchRejected ==
    \A k \in OpsOf("write_range") :
        LET e == file_log[k] IN
        Len(e.data) # RangeLen(e.range) =>
            /\ e.res # Receipt
            /\ e.receipt = NoReceipt
            /\ e.after = e.before

\* C16: a WriteReceipt for range r exists only as the result of a successful
\* write to exactly r: whenever write_range returns a receipt, receipt.range()
\* is the range argument and the mapping bytes [r.start, r.end) have just
\* been set to the supplied data.
C16_ReceiptMeansWritten ==
    \A k \in OpsOf("write_range") :
        LET e == file_log[k] IN
        e.res = Receipt =>
            /\ e.receipt = WriteReceipt(e.range)
            /\ e.copied = RangeOffsets(e.range)
            /\ \A o \in RangeOffsets(e.range) :
                  /\ o - e.range.start + 1 <= Len(e.data)
                  /\ e.after[o] = e.data[o - e.range.start + 1]

\* C17: every flush_range call of the safe API is preceded by a completed
\* write_range call on exactly the receipt's range and flushes exactly
\* [receipt.start, receipt.end); no byte it flushes was never written.
C17_FlushAfterWrite ==
    \A k \in OpsOf("flush_range") :
        LET e == file_log[k]
            r == e.receipt.range
        IN  /\ \E j \in 1 .. k - 1 :
                  /\ file_log[j].op = "write_range"
                  /\ file_log[j].res = Receipt
                  /\ file_log[j].range = r
            /\ e.flushed = SomeRange(r.start, r.end)
            /\ \A o \in RangeOffsets(r) :
                  \E j \in 1 .. k - 1 : o \in file_log[j].copied

C20_WriteAtExact ==
    \A k \in OpsOf("write_at") :
        LET e == file_log[k] IN
        IF e.offset + Len(e.data) > file_size
        THEN e.res = Err("WriteExceedsFileSize") /\ e.after = e.before
        ELSE /\ e.res = Ok(Len(e.data))
             /\ \A i \in 1 .. Len(e.data) : e.after[e.offset + i - 1] = e.data[i]

\* a write that ends one byte after the file was refused and a write that
\* ends with the file's last byte, not starting at 0, was made
C20_Witness ==
    \E j, k \in OpsOf("write_at") :
        /\ file_log[j].offset + Len(file_log[j].data) = file_size + 1
        /\ file_log[j].offset < file_size
        /\ file_log[j].res.kind = "Err"
        /\ file_log[k].offset + Len(file_log[k].data) = file_size
        /\ file_log[k].offset > 0
        /\ file_log[k].res = Ok(Len(file_log[k].data))
        /\ file_log[k].after # file_log[k].before

\* C21: read_at(offset, buf) never fails on bounds: it returns 0 and leaves
\* buf unchanged when offset >= size, and otherwise returns
\* n = min(buf.len(), size - offset) after copying the mapping bytes
\* [offset, offset + n) into buf[0..n).
C21_ReadAtClamped ==
    \A k \in OpsOf("read_at") :
        LET e == file_log[k] IN
        IF e.offset >= file_size
        THEN e.res = Ok(0) /\ e.buf = e.data
        ELSE LET n == min(Len(e.data), file_size - e.offset)
             IN  /\ e.res = Ok(n)
                 /\ Len(e.buf) = Len(e.data)
                 /\ \A i \in 1 .. n : e.buf[i] = e.before[e.offset + i - 1]

\* after a write of distinct bytes, a read from inside the file into a buffer
\* longer than what is left was clamped, and a read from the end returned 0
C21_Witness ==
    \E j \in OpsOf("write_at") : \E k \in OpsOf("read_at") :
        /\ j < k
        /\ file_log[j].data = Ramp(FileSize)
        /\ file_log[j].res = Ok(FileSize)
        /\ file_log[k].offset > 0
        /\ file_log[k].offset < file_size
        /\ Len(file_log[k].data) > file_size - file_log[k].offset
        /\ file_log[k].res = Ok(file_size - file_log[k].offset)

\* C22: the raw flush_range(offset, len) fails with
\* flush-range-exceeds-file-size exactly when offset + len > size and
\* otherwise requests a flush of [offset, offset + len); the safe
\* flush_range(receipt), for a receipt whose range the file's paired
\* allocator minted, never takes that error path.
C22_FlushRangeBounds ==
    /\ \A k \in OpsOf("inner_flush_range") :
          LET e == file_log[k] IN
          /\ (e.res = Err("FlushRangeExceedsFileSize")) <=> (e.offset + e.len > file_size)
          /\ e.offset + e.len <= file_size
                => e.res = Ok(0) /\ e.flushed = SomeRange(e.offset, e.offset + e.len)
    /\ \A k \in OpsOf("flush_range") :
          file_log[k].receipt.range \in Tokens
              => file_log[k].res # Err("FlushRangeExceedsFileSize")

\* a safe flush of a written non-empty range went through, after a raw flush
\* that reached past the end was refused
C22_Witness ==
    \E j \in OpsOf("inner_flush_range") : \E k \in OpsOf("flush_range") :
        /\ file_log[j].offset < file_size
        /\ file_log[j].offset + file_log[j].len > file_size
        /\ file_log[j].res = Err("FlushRangeExceedsFileSize")
        /\ file_log[k].receipt.range \in Tokens
        /\ file_log[k].receipt.range.end > file_log[k].receipt.range.start
        /\ file_log[k].res = Ok(0)
        /\ file_log[k].flushed = file_log[k].receipt.range

\* the split calls of one kind, by position in split_log
SplitsOf(op) == {k \in 1 .. Len(split_log) : split_log[k].op = op}
\* the receiver is a well-formed interval
WellFormed(r) == r.start <= r.end

\* C23: split_at_align_up(pos) on a range [start, end) returns exactly one
\* of three outcomes: OutOfBounds(original) iff pos > len; Low(original) iff
\* pos <= len and align_up(start + pos) >= end; otherwise Split with
\* low = [start, align_up(start + pos)) and high = [align_up(start + pos), end).
\* The receiver is never modified.  align_up(v) is the least multiple of the
\* block size that is >= v.
C23_SplitUpOutcomes ==
    \A k \in SplitsOf("split_at_align_up") :
        LET e == split_log[k]
            r == e.self
            len == r.end - r.start
            point == AlignUpExact(r.start + e.pos)
        IN  WellFormed(r) =>
            /\ e.after = r
            /\ e.res.kind \in {"OutOfBounds", "Low", "Split"}
            /\ (e.res.kind = "OutOfBounds") <=> (e.pos > len)
            /\ (e.res.kind = "Low") <=> (e.pos <= len /\ point >= r.end)
            /\ e.res.kind \in {"OutOfBounds", "Low"} => e.res.range = r
            /\ e.res.kind = "Split"
                  => /\ e.res.low = SomeRange(r.start, point)
                     /\ e.res.high = SomeRange(point, r.end)

C25_SplitCovers ==
    \A k \in 1 .. Len(split_log) :
        LET e == split_log[k] IN
        (WellFormed(e.self) /\ e.res.kind = "Split") =>
            /\ e.res.low.start = e.self.start
            /\ e.res.low.end = e.res.high.start
            /\ e.res.high.end = e.self.end
            /\ WellFormed(e.res.low)
            /\ WellFormed(e.res.high)

\* C26: whenever split_at_align_up or split_at_align_down returns the Split
\* variant, for any range and any pos, both low and high are non-empty ranges.
C26_BothHalvesNonEmpty ==
    \A k \in 1 .. Len(split_log) :
        split_log[k].res.kind = "Split"
            => ~is_empty(split_log[k].res.low) /\ ~is_empty(split_log[k].res.high)

\* the calls of one function, by position in align_log
AlignsOf(fn) == {k \in 1 .. Len(align_log) : align_log[k].fn = fn}

\* C27: for every 64-bit value v, align_up and align_down return without
\* error, both results are multiples of 4096, align_down(v) <= v <= align_up(v),
\* and align_up(v) - align_down(v) is 0 or exactly 4096; align_up(0) = 0.
C27_AlignBrackets ==
    /\ \A k \in 1 .. Len(align_log) :
          /\ align_log[k].res.kind = "Ok"
          /\ align_log[k].res.value % ALIGNMENT = 0
    /\ \A k \in AlignsOf("align_down") : align_log[k].res.value <= align_log[k].v
    /\ \A k \in AlignsOf("align_up") :
          /\ align_log[k].v <= align_log[k].res.value
          /\ align_log[k].v = 0 => align_log[k].res.value = 0
    /\ \A j \in AlignsOf("align_up") : \A k \in AlignsOf("align_down") :
          align_log[j].v = align_log[k].v
              => align_log[j].res.value - align_log[k].res.value \in {0, ALIGNMENT}

\* C28: for all v, align_down(align_up(v)) = align_up(v); align_up and
\* align_down are both idempotent and both leave every multiple of 4096
\* unchanged.
C28_AlignRoundTrip ==
    /\ \A k \in 1 .. Len(align_log) :
          /\ align_log[k].res.kind = "Ok"
          /\ align_log[k].v % ALIGNMENT = 0 => align_log[k].res.value = align_log[k].v
    /\ \A j, k \in 1 .. Len(align_log) :
          (j < k /\ align_log[k].v = align_log[j].res.value)
              => \/ align_log[j].fn = "align_down" /\ align_log[k].fn = "align_up"
                 \/ align_log[k].res.value = align_log[j].res.value

\* the mapping is not written between the calls j and k
Untouched(j, k) ==
    \A i \in j + 1 .. k - 1 : file_log[i].after = file_log[i].before

\* C29: all clones of a file handle share one mapping and one size: a write
\* made through any handle is observed by a later read through every other
\* handle, size() is the same on all of them, and no operation (write, read,
\* flush, fill, clone) ever changes size.
C29_ClonesShare ==
    /\ \A h \in Live : size_of(h) = total_size
    /\ \A j \in OpsOf("write_at") : \A k \in OpsOf("read_at") :
          (j < k /\ Untouched(j, k) /\ file_log[j].res.kind = "Ok")
              => \A i \in copy_region(file_log[j].offset, file_log[j].data) :
                    (i >= file_log[k].offset /\ i < file_log[k].offset + file_log[k].res.n)
                        => file_log[k].buf[i - file_log[k].offset + 1]
                               = file_log[j].data[i - file_log[j].offset + 1]
    /\ \A j \in OpsOf("fill") : \A k \in OpsOf("read_at") :
          (j < k /\ Untouched(j, k))
              => \A i \in 1 .. file_log[k].res.n : file_log[k].buf[i] = FillByte(file_log[j].by)

\* every thread holds a clone, and a read through one of them returned the
\* bytes written through another
C29_Witness ==
    /\ Live = Threads
    /\ \E j \in OpsOf("write_at") : \E k \in OpsOf("read_at") :
          /\ j < k
          /\ file_log[j].by # file_log[k].by
          /\ file_log[j].res = Ok(FileSize)
          /\ file_log[k].res = Ok(FileSize)
          /\ file_log[k].buf = file_log[j].data

\* C30: for a (MmapFile, allocator) pair returned by create or open,
\* allocator.total_size() equals file.size() and the cursor starts at 0, so
\* every range that allocator ever mints satisfies end <= file.size() and a
\* write_range of matching-length data on it never exceeds the mapping's
\* bounds.
C30_PairedAllocatorFits ==
    /\ size_of(1) = total_size
    /\ seq_calls # <<>> => seq_calls[1].before = 0
    /\ \A k \in 1 .. Len(conc_calls) :
          (conc_calls[k].began = 0 /\ IsSome(conc_calls[k])) => conc_calls[k].res.start = 0
    /\ \A r \in Tokens : r.end <= file_size
    /\ \A k \in OpsOf("write_range") :
          LET e == file_log[k] IN
          (e.res = Receipt /\ Len(e.data) = e.range.end - e.range.start)
              => /\ ~exceeds_file_size(e.range.start, Len(e.data))
                 /\ e.copied = RangeOffsets(e.range)

\* the range that ends at the end of the file was written with data of its
\* length, and every byte of it was copied
C30_Witness ==
    \E k \in OpsOf("write_range") :
        /\ file_log[k].res = Receipt
        /\ file_log[k].range.start = 0
        /\ file_log[k].range.end = file_size
        /\ Len(file_log[k].data) = file_size
        /\ file_log[k].copied = 0 .. file_size - 1

\* the log follows the mapping: each call starts from what the call before
\* it left, and the last call left the mapping as it is now
LogFollowsMapping ==
    /\ \A k \in 1 .. Len(file_log) - 1 : file_log[k + 1].before = file_log[k].after
    /\ file_log # <<>> => file_log[Len(file_log)].after = mapping

C32_CursorMonotonic ==
    [][/\ seq_next_pos' >= seq_next_pos
       /\ next_pos' >= next_pos
       /\ total_size' = total_size]_vars

\* the sequential calls that observed the allocator
IsObserver(c) == c.res.kind \in {"remaining", "next_pos", "total_size"}

\* seq_calls follows the cursor: each call starts from where the call before
\* it left the cursor, and the last call left it where it is now
SeqLogFollowsCursor ==
    /\ \A k \in 1 .. Len(seq_calls) - 1 : seq_calls[k + 1].before = seq_calls[k].after
    /\ seq_calls # <<>> => seq_calls[Len(seq_calls)].after = seq_next_pos

\* C33: a sequential allocate call that fails with exhaustion leaves
\* next_pos and remaining() unchanged, and the observers remaining(),
\* next_pos() and total_size() never change the allocator's state.
C33_ExhaustionAndObserversPure ==
    /\ SeqLogFollowsCursor
    /\ \A k \in 1 .. Len(seq_calls) :
          LET c == seq_calls[k] IN
          (IsNone(c) \/ IsObserver(c))
              => /\ c.after = c.before
                 /\ saturating_sub(total_size, c.after) = saturating_sub(total_size, c.before)

\* an allocation took everything, the next one failed, and remaining() then
\* returned 0 with the cursor still at total_size
C33_Witness ==
    /\ Len(seq_calls) = 3
    /\ IsSome(seq_calls[1])
    /\ IsNone(seq_calls[2])
    /\ seq_calls[3].res = Observed("remaining", 0)
    /\ seq_next_pos = total_size

\* every range boundary is a block multiple or total_size, so a union of
\* ranges is told by the boundaries it holds
Marks == {k * ALIGNMENT : k \in 0 .. (U64Mod \div ALIGNMENT) - 1} \cup {total_size}
Covered(ranges) == {p \in Marks : \E r \in ranges : r.start <= p /\ p < r.end}

\* C34: starting from the ranges minted by one allocator and repeatedly
\* replacing any held range by the low and high halves of a Split result of
\* split_at_align_up or split_at_align_down, the set of held ranges stays
\* pairwise non-overlapping and its union stays equal to the union of the
\* originally minted ranges.
C34_SplitClosure ==
    /\ \A a, b \in held : a # b => ~Overlap(a, b)
    /\ Covered(held) = Covered(Tokens)

ConcRanges ==
    {conc_calls[i].res : i \in {j \in 1 .. Len(conc_calls) : conc_calls[j].res.kind = "Some"}}
AllExhausted == \A t \in Threads : pc[t] = "exhausted"

\* C36: when every worker has called allocate until it got exhaustion and
\* all calls have returned, the returned ranges cover [0, total_size): their
\* lengths sum to total_size and the largest end equals total_size
C36_DrainCovers ==
    AllExhausted =>
        /\ SumLens(conc_calls, Len(conc_calls)) = total_size
        /\ \E r \in ConcRanges : r.end = total_size
        /\ \A r \in ConcRanges : r.end <= total_size

\* two write_at calls that ran one after the other, both in bounds, on
\* intervals that do not overlap
DisjointWrites ==
    {k \in OpsOf("write_at") :
        /\ k + 1 \in OpsOf("write_at")
        /\ file_log[k].res.kind = "Ok"
        /\ file_log[k + 1].res.kind = "Ok"
        /\ file_log[k].copied \cap file_log[k + 1].copied = {}}

\* the two calls made in the other order on the mapping the first one found
Swapped(k) ==
    LET a == file_log[k]
        b == file_log[k + 1]
        first == write_at(a.before, b.offset, b.data)
    IN  [first |-> first, second |-> write_at(first.mapping, a.offset, a.data)]

\* C37: two in-bounds writes to intervals that do not overlap commute: the
\* mapping after both is the same whichever runs first, and so the contents
\* after a set of disjoint writes do not depend on their order
C37_DisjointWritesCommute ==
    /\ LogFollowsMapping
    /\ \A k \in DisjointWrites :
          /\ Swapped(k).first.res = file_log[k + 1].res
          /\ Swapped(k).second.res = file_log[k].res
          /\ Swapped(k).second.mapping = file_log[k + 1].after
          /\ k + 1 = Len(file_log) => Swapped(k).second.mapping = mapping

\* a write of one byte at offset 1 and then a write of another byte at
\* offset 0, each changing the byte it targets
C37_Witness ==
    \E k \in DisjointWrites :
        /\ file_log[k].copied = {1}
        /\ file_log[k + 1].copied = {0}
        /\ file_log[k + 1].after[0] # file_log[k].before[0]
        /\ file_log[k + 1].after[1] # file_log[k].before[1]
        /\ file_log[k + 1].after[0] # file_log[k + 1].after[1]
        /\ mapping = file_log[k + 1].after

\* C38: allocate on either allocator never aborts and never overflows 64-bit
\* arithmetic, for every non-zero requested size and every cursor value: a
\* call ends with an ordinary value, a range or exhaustion, and neither the
\* sum in align_up nor the addition to the cursor passes 2^64 - 1
C38_AllocateNeverOverflows ==
    /\ \A i \in 1 .. Len(seq_calls) :
          LET c == seq_calls[i] IN
          /\ c.res.kind \in {"Some", "None"}
          /\ c.before < total_size => ~align_up_overflows(c.req)
    /\ \A i \in 1 .. Len(conc_calls) :
          LET c == conc_calls[i] IN
          /\ c.res.kind \in {"Some", "None"}
          /\ ~align_up_overflows(c.req)
          /\ c.before + align_up(c.req) <= U64Max
    /\ \A t \in Threads : pc[t] # "panicked"
====
